---- MODULE Spec2Model ----
(***************************************************************************)
(* A model of core-futures-tls, src/src/future.rs: the task-context slot   *)
(* TLS_CX, the SetOnDrop guard, set_task_context, get_task_context,        *)
(* poll_with_tls_context and GenFuture::poll.                              *)
(*                                                                         *)
(* Every execution unit (thread) has a call stack of the two functions     *)
(* that own a guard: set_task_context and get_task_context.  The closure   *)
(* each of them runs is one of                                             *)
(*   "resume" : the closure of GenFuture::poll, which resumes a generator; *)
(*   "fpoll"  : the closure of poll_with_tls_context, |cx| F::poll(f, cx); *)
(*   "op"     : a closure written by the caller.                           *)
(* Generator bodies and "op" closures are code outside the repository:     *)
(* they may call any of the public functions, return any value, or panic.  *)
(***************************************************************************)
EXTENDS Naturals, Sequences, FiniteSets

\* The deepest call stack explored.
MaxDepth == 4

\* The most frames all units hold together, when more than one unit runs.
MaxFrames == 3

Units == {"u1", "u2"}
Contexts == {"C0", "C1"}
Adapters == {"A", "B"}
Values == {7, 42}

\* Option<NonNull<Context>>: None, or Some(c) written c.
None == "None"

\* core::task::Poll and core::ops::GeneratorState, and what a caller's closure returns.
NoResult == [t |-> "none", v |-> 0]
Pending == [t |-> "Pending", v |-> 0]
Ready(x) == [t |-> "Ready", v |-> x]
Yielded == [t |-> "Yielded", v |-> 0]
Complete(x) == [t |-> "Complete", v |-> x]
OpValue(x) == [t |-> "Value", v |-> x]
GeneratorStates == {Yielded} \cup {Complete(x) : x \in Values}
OpValues == {OpValue(x) : x \in Values}

\* The closures.
ResumeOf(a) == [k |-> "resume", a |-> a]
FPollOf(a) == [k |-> "fpoll", a |-> a]
Op == [k |-> "op", a |-> "-"]

VARIABLES
    shared,   \* TRUE: built with feature unsafe-single-thread (one global cell)
    units,    \* the execution units that run
    slot,     \* TLS_CX, per cell
    stack,    \* per unit, the frames of set_task_context / get_task_context
    status,   \* per unit: "run", or "unwind" while a panic propagates
    gen,      \* per adapter, the state of its generator
    origin,   \* per unit, where the panic that unwinds it was raised (history)
    ev,       \* per unit, the call the last step entered or left (history)
    seen      \* per unit, what the load of a replace read, until its store

vars == <<shared, units, slot, stack, status, gen, origin, ev, seen>>

\* #[thread_local] static TLS_CX, or the one static of the single-core build.
SharedCell == "u1"

\* Faulty variant: the static of the default build is not thread-local.
CellOfShared(u) == SharedCell

\* Faulty variant: the static of the single-core build is thread-local too.
CellOfOwn(u) == u

CellOf(u) == IF shared THEN SharedCell ELSE u

\* Cell::replace is a load and a store with no synchronisation.  Several
\* units on the one static race: the stores of other units can fall between
\* the load and the store of a replace.  A cell that one unit uses is
\* replaced in one step.
Racy == shared /\ Cardinality(units) > 1

\* No load of unit u waits for its store.
NotLoaded == "-"

\* What the replace of unit u's call reads.
Old(u) == IF Racy THEN seen[u] ELSE slot[CellOf(u)]

\* Unit u is between two operations on the cell.
Settled(u) == seen[u] = NotLoaded

\* Unit u has what its replace needs to go on to the store.
Loaded(u) == Racy => seen[u] # NotLoaded

NoEv ==
    [fn |-> "-", f |-> Op, how |-> "-", pre |-> None, post |-> None, cx |-> None,
     arg |-> None, guard |-> None, out |-> NoResult, val |-> NoResult,
     g0 |-> "-", g1 |-> "-", nest |-> 0, fired |-> 0, depth |-> 0, invoked |-> FALSE,
     res |-> 0, src |-> "-", srcd |-> 0]

\* No panic unwinds the unit.
NoOrigin == [src |-> "-", d |-> 0]

\* The history after a step of unit u: e for u, nothing for the other units.
Event(u, e) == [v \in Units |-> IF v = u THEN e ELSE NoEv]

\* ---------------------------------------------------------------- the code

\* Faulty variant: the context is installed only into an empty cell.
InstallIfEmpty(old, cx) == IF old = None THEN cx ELSE old

\* set_task_context: TLS_CX.replace(Some(cx)): the value the cell holds afterwards.
InstallSlot(old, cx) == cx

\* Faulty variant: the cell is read and not cleared.
TakeKeeps(old) == old

\* get_task_context: TLS_CX.replace(None): the value the cell holds afterwards.
TakeSlot(old) == None

\* Faulty variant: a context may be installed only into an empty cell.
ReplacePanicsIfSet(old) == old # None

\* set_task_context: TLS_CX.replace(..) is Cell::replace: TRUE when it panics.
ReplacePanics(old) == FALSE

\* Faulty variant: the guard keeps the new context, not the previous one.
SetGuardNew(old, cx) == cx

\* set_task_context: let old_cx = TLS_CX.replace(Some(cx)); SetOnDrop(old_cx).
SetGuard(old, cx) == old

\* Faulty variant: the guard is built from the cell after it was cleared.
GetGuardNone(old) == None

\* get_task_context: let cx_ptr = TLS_CX.replace(None); SetOnDrop(cx_ptr).
GetGuard(old) == old

\* Faulty variant: the guard clears the cell instead of writing its value back.
DropNone(guard) == None

\* SetOnDrop::drop: TLS_CX.set(self.0.take()): the value written to the cell.
DropValue(guard) == guard

\* Faulty variant: the cell is restored after f() returns and not by a destructor.
DropsLeakOnPanic(how) == IF how = "panic" THEN 0 ELSE 1

\* Faulty variant: the cell is restored after f() returns and by the destructor too.
DropsTwiceOnReturn(how) == IF how = "ret" THEN 2 ELSE 1

\* How often the guard bound to _reset is dropped when its scope is left,
\* by a return ("ret") or by a panic that unwinds through it ("panic").
DropsOnExit(how) == 1

\* Faulty variant: the empty cell is not checked for.
ExpectNever(cxptr) == FALSE

\* cx_ptr.expect(..): TRUE when it panics.
ExpectPanics(cxptr) == cxptr = None

\* f(cx_ptr.as_mut()): the context handed to the closure.
ClosureArg(cxptr) == cxptr

\* Faulty variant: the arms of the match are exchanged.
PollResultSwapped(gs) == IF gs.t = "Yielded" THEN Ready(gs.v) ELSE Pending

\* GenFuture::poll's match on gen.resume().
PollResult(gs) == IF gs.t = "Yielded" THEN Pending ELSE Ready(gs.v)

\* The generator after a resume that ended with gs.
GenAfter(gs) == IF gs.t = "Yielded" THEN "suspended" ELSE "returned"

\* set_task_context and get_task_context return what their closure returned.
CallResult(r) == r

\* |cx| F::poll(f, cx): the context poll_with_tls_context hands to F::poll.
FPollContext(arg) == arg

\* Faulty variant: a destructor of GenFuture that clears the cell.
AdapterDropClears(old) == None

\* GenFuture has no Drop: what the cell holds after an adapter is dropped.
AdapterDropSlot(old) == old

\* ---------------------------------------------------------------- frames

Top(u) == stack[u][Len(stack[u])]

\* The frames all units hold.
RECURSIVE FramesOf(_)
FramesOf(us) ==
    IF us = {} THEN 0
    ELSE LET u == CHOOSE x \in us : TRUE
         IN  Len(stack[u]) + FramesOf(us \ {u})

\* The most frames all units hold together: one fewer on the shared cell,
\* where the frames of a unit are not tied to what the cell holds.
FrameBound == IF shared THEN MaxFrames - 1 ELSE MaxFrames

\* Unit u may call deeper within the bounds.
Room(u) ==
    /\ Len(stack[u]) < MaxDepth
    /\ Cardinality(units) > 1 => FramesOf(Units) < FrameBound

\* The code on top of unit u's stack is written by the caller (a generator
\* body or a caller's closure), or the stack is empty and the driver runs.
External(u) ==
    /\ u \in units
    /\ status[u] = "run"
    /\ Room(u)
    /\ Len(stack[u]) > 0 => Top(u).f.k \in {"resume", "op"}

\* The contexts the code on unit u can pass as &mut Context: any, when one
\* unit runs; its own, when several do (a &mut Context has one holder).
OwnContext == [u \in Units |-> IF u = "u1" THEN "C0" ELSE "C1"]
ContextsOf(u) == IF Cardinality(units) = 1 THEN Contexts ELSE {OwnContext[u]}

\* The adapters the code on unit u drives: any, when one unit runs; its
\* own, when several do.
OwnAdapter == [u \in Units |-> IF u = "u1" THEN "A" ELSE "B"]
AdaptersOf(u) == IF Cardinality(units) = 1 THEN Adapters ELSE {OwnAdapter[u]}

\* No unit holds the Pin<&mut> borrow of adapter a.
Unborrowed(a) ==
    \A u \in Units : \A i \in 1..Len(stack[u]) : stack[u][i].f.a # a

\* Adapter a has not been dropped.
Alive(a) == gen[a] \notin {"abandoned", "dropped"}

SetFrame(f, cx, old, g0) ==
    [fn |-> "set", f |-> f, cx |-> cx, guard |-> SetGuard(old, cx), pre |-> old,
     arg |-> None, r |-> NoResult, g0 |-> g0, nest |-> 0,
     invoked |-> ~ReplacePanics(old),
     res |-> IF f.k = "resume" THEN 1 ELSE 0]

GetFrame(f, old) ==
    [fn |-> "get", f |-> f, cx |-> None, guard |-> GetGuard(old), pre |-> old,
     arg |-> IF ExpectPanics(old) THEN None ELSE ClosureArg(old),
     r |-> NoResult, g0 |-> "-", nest |-> 0, invoked |-> ~ExpectPanics(old),
     res |-> 0]

Init ==
    /\ shared = FALSE
    /\ units = {"u1"}
    /\ slot = [u \in Units |-> None]
    /\ stack = [u \in Units |-> <<>>]
    /\ status = [u \in Units |-> "run"]
    /\ gen = [a \in Adapters |-> "start"]
    /\ origin = [u \in Units |-> NoOrigin]
    /\ ev = [u \in Units |-> NoEv]
    /\ seen = [u \in Units |-> NotLoaded]

\* The history of a call that has just been entered with frame fr.
Entered(fr, depth) ==
    [NoEv EXCEPT !.fn = fr.fn, !.f = fr.f, !.how = "enter", !.pre = fr.pre,
                 !.cx = fr.cx, !.arg = fr.arg, !.guard = fr.guard, !.g0 = fr.g0,
                 !.depth = depth, !.invoked = fr.invoked, !.res = fr.res]

\* A panic is raised on unit u in the frame at depth d by src.
Raise(u, src, d) ==
    /\ status' = [status EXCEPT ![u] = "unwind"]
    /\ origin' = [origin EXCEPT ![u] = [src |-> src, d |-> d]]

\* set_task_context(cx, f) up to the call of f.
EnterSet(u, f, cx, g0) ==
    LET fr == SetFrame(f, cx, Old(u), g0)
    IN  /\ Loaded(u)
        /\ slot' = [slot EXCEPT ![CellOf(u)] =
                        IF ReplacePanics(Old(u)) THEN @ ELSE InstallSlot(Old(u), cx)]
        /\ seen' = [seen EXCEPT ![u] = NotLoaded]
        /\ stack' = [stack EXCEPT ![u] = Append(@, fr)]
        /\ ev' = Event(u, Entered(fr, Len(stack[u]) + 1))

\* get_task_context(f) up to the call of f, or to the panic of expect.
EnterGet(u, f) ==
    LET fr == GetFrame(f, Old(u))
    IN  /\ Loaded(u)
        /\ slot' = [slot EXCEPT ![CellOf(u)] = TakeSlot(Old(u))]
        /\ seen' = [seen EXCEPT ![u] = NotLoaded]
        /\ stack' = [stack EXCEPT ![u] = Append(@, fr)]
        /\ IF ExpectPanics(Old(u))
           THEN Raise(u, "expect", Len(stack[u]) + 1)
           ELSE UNCHANGED <<status, origin>>
        /\ ev' = Event(u, Entered(fr, Len(stack[u]) + 1))

\* GenFuture::poll(a, cx): set_task_context(cx, || match gen.resume() ..).
\* A generator that has returned or panicked panics when it is resumed.
EnterPoll(u, a, cx) ==
    /\ EnterSet(u, ResumeOf(a), cx, gen[a])
    /\ IF ReplacePanics(Old(u))
       THEN /\ gen' = gen
            /\ Raise(u, "replace", Len(stack[u]) + 1)
       ELSE IF gen[a] \in {"start", "suspended"}
       THEN /\ gen' = [gen EXCEPT ![a] = "running"]
            /\ UNCHANGED <<status, origin>>
       ELSE /\ gen' = gen
            /\ Raise(u, "resume", Len(stack[u]) + 1)

\* The caller's code calls set_task_context(cx, op).
SetCall(u, cx) ==
    /\ External(u)
    /\ EnterSet(u, Op, cx, "-")
    /\ IF ReplacePanics(Old(u))
       THEN Raise(u, "replace", Len(stack[u]) + 1)
       ELSE UNCHANGED <<status, origin>>
    /\ UNCHANGED <<shared, units, gen>>

\* The caller's code calls Future::poll on adapter a with context cx.
PollCall(u, a, cx) ==
    /\ External(u)
    /\ Unborrowed(a)
    /\ Alive(a)
    /\ EnterPoll(u, a, cx)
    /\ UNCHANGED <<shared, units>>

\* The caller's code calls get_task_context(op).
GetCall(u) ==
    /\ External(u)
    /\ EnterGet(u, Op)
    /\ UNCHANGED <<shared, units, gen>>

\* The caller's code calls poll_with_tls_context(a).
PwtcCall(u, a) ==
    /\ External(u)
    /\ Unborrowed(a)
    /\ Alive(a)
    /\ EnterGet(u, FPollOf(a))
    /\ UNCHANGED <<shared, units, gen>>

\* The closure of poll_with_tls_context calls F::poll(f, cx).
FPollCall(u) ==
    /\ u \in units
    /\ status[u] = "run"
    /\ Len(stack[u]) > 0
    /\ Room(u)
    /\ Top(u).f.k = "fpoll"
    /\ Top(u).r = NoResult
    /\ EnterPoll(u, Top(u).f.a, FPollContext(Top(u).arg))
    /\ UNCHANGED <<shared, units>>

\* The frame on top of unit u's stack is left: its guard is dropped, and the
\* caller (a frame, or the driver) gets the result or the panic.  A second
\* drop of a guard would write None, which take() left in it.  A panic that
\* has left the outermost frame is the driver's: the unit runs on.
Leave(u, how, out, opret, g1) ==
    LET n == Len(stack[u])
        fr == stack[u][n]
        drops == DropsOnExit(how)
        val == IF how = "ret" THEN CallResult(opret) ELSE NoResult
        after == IF drops = 0 THEN slot[CellOf(u)]
                 ELSE IF drops = 1 THEN DropValue(fr.guard)
                 ELSE None
        below == SubSeq(stack[u], 1, n - 1)
        up == IF fr.f.k = "resume" /\ n > 1 /\ below[n - 1].f.k = "fpoll"
              THEN fr.nest + 1
              ELSE IF fr.f.k = "fpoll" THEN fr.nest ELSE 0
        caller == IF n = 1 THEN below
                  ELSE [below EXCEPT ![n - 1] =
                          [@ EXCEPT !.r = IF how = "ret" /\ below[n - 1].f.k = "fpoll"
                                          THEN val ELSE @,
                                    !.nest = IF up > @ THEN up ELSE @]]
    IN  /\ slot' = [slot EXCEPT ![CellOf(u)] = after]
        /\ stack' = [stack EXCEPT ![u] = caller]
        /\ status' = [status EXCEPT ![u] =
                        IF how = "panic" /\ n > 1 THEN "unwind" ELSE "run"]
        /\ origin' = [origin EXCEPT ![u] =
                        IF how = "panic" /\ n > 1 THEN @ ELSE NoOrigin]
        /\ ev' = Event(u,
                    [fn |-> fr.fn, f |-> fr.f, how |-> how, pre |-> fr.pre,
                     post |-> after, cx |-> fr.cx, arg |-> fr.arg, guard |-> fr.guard,
                     out |-> out, val |-> val, g0 |-> fr.g0, g1 |-> g1,
                     nest |-> fr.nest, fired |-> drops, depth |-> n,
                     invoked |-> fr.invoked, res |-> fr.res,
                     src |-> IF how = "panic" THEN origin[u].src ELSE "-",
                     srcd |-> IF how = "panic" THEN origin[u].d ELSE 0])

\* gen.resume() returns gs: the closure of GenFuture::poll maps it, and
\* set_task_context returns.
ResumeReturn(u, gs) ==
    /\ u \in units
    /\ status[u] = "run"
    /\ Settled(u)
    /\ Len(stack[u]) > 0
    /\ Top(u).f.k = "resume"
    /\ Leave(u, "ret", gs, PollResult(gs), GenAfter(gs))
    /\ gen' = [gen EXCEPT ![Top(u).f.a] = GenAfter(gs)]
    /\ UNCHANGED <<shared, units, seen>>

\* A caller's closure returns v.
OpReturn(u, v) ==
    /\ u \in units
    /\ status[u] = "run"
    /\ Settled(u)
    /\ Len(stack[u]) > 0
    /\ Top(u).f.k = "op"
    /\ Leave(u, "ret", v, v, "-")
    /\ UNCHANGED <<shared, units, gen, seen>>

\* The closure of poll_with_tls_context returns what F::poll returned.
FPollReturn(u) ==
    /\ u \in units
    /\ status[u] = "run"
    /\ Settled(u)
    /\ Len(stack[u]) > 0
    /\ Top(u).f.k = "fpoll"
    /\ Top(u).r # NoResult
    /\ Leave(u, "ret", Top(u).r, Top(u).r, "-")
    /\ UNCHANGED <<shared, units, gen, seen>>

\* A generator body or a caller's closure panics.
Panic(u) ==
    /\ u \in units
    /\ status[u] = "run"
    /\ Settled(u)
    /\ Len(stack[u]) > 0
    /\ Top(u).f.k \in {"resume", "op"}
    /\ Raise(u, Top(u).f.k, Len(stack[u]))
    /\ ev' = Event(u, NoEv)
    /\ UNCHANGED <<shared, units, slot, stack, gen, seen>>

\* The panic unwinds through the frame on top of the stack.
Unwind(u) ==
    /\ u \in units
    /\ status[u] = "unwind"
    /\ Len(stack[u]) > 0
    /\ Leave(u, "panic", NoResult, NoResult, "panicked")
    /\ gen' = IF Top(u).f.k = "resume" /\ Top(u).g0 \in {"start", "suspended"}
              THEN [gen EXCEPT ![Top(u).f.a] = "panicked"]
              ELSE gen
    /\ UNCHANGED <<shared, units, seen>>

\* The code that runs on unit u drops adapter a, which it owns and nothing
\* borrows: "abandoned" when its generator was suspended.  GenFuture has no
\* destructor of its own.
DropAdapter(u, a) ==
    /\ u \in units
    /\ status[u] = "run"
    /\ Settled(u)
    /\ Len(stack[u]) > 0 => Top(u).f.k \in {"resume", "op"}
    /\ Unborrowed(a)
    /\ Alive(a)
    /\ gen' = [gen EXCEPT ![a] = IF @ = "suspended" THEN "abandoned" ELSE "dropped"]
    /\ slot' = [slot EXCEPT ![CellOf(u)] = AdapterDropSlot(@)]
    /\ ev' = Event(u, [NoEv EXCEPT !.fn = "drop", !.f = [k |-> "drop", a |-> a],
                                  !.how = "drop", !.pre = slot[CellOf(u)],
                                  !.post = AdapterDropSlot(slot[CellOf(u)]),
                                  !.g0 = gen[a], !.depth = Len(stack[u])])
    /\ UNCHANGED <<shared, units, stack, status, origin, seen>>

Next ==
    \E u \in Units :
        \/ \E cx \in ContextsOf(u) : SetCall(u, cx)
        \/ \E a \in AdaptersOf(u), cx \in ContextsOf(u) : PollCall(u, a, cx)
        \/ GetCall(u)
        \/ \E a \in AdaptersOf(u) : PwtcCall(u, a)
        \/ FPollCall(u)
        \/ \E gs \in GeneratorStates : ResumeReturn(u, gs)
        \/ \E v \in OpValues : OpReturn(u, v)
        \/ FPollReturn(u)
        \/ Panic(u)
        \/ Unwind(u)
        \/ \E a \in AdaptersOf(u) : DropAdapter(u, a)

\* The load of the replace of the call unit u makes next, on the static
\* that several units use: the code on top of the stack is about to call
\* set_task_context, get_task_context or a poll.
Load(u) ==
    /\ Racy
    /\ u \in units
    /\ status[u] = "run"
    /\ Settled(u)
    /\ Room(u)
    /\ Len(stack[u]) > 0 =>
            \/ Top(u).f.k \in {"resume", "op"}
            \/ Top(u).f.k = "fpoll" /\ Top(u).r = NoResult
    /\ seen' = [seen EXCEPT ![u] = slot[CellOf(u)]]
    /\ ev' = Event(u, NoEv)
    /\ UNCHANGED <<shared, units, slot, stack, status, gen, origin>>

\* The steps of several units on the one static: the loads of the replaces
\* are steps of their own.  The units keep their adapters.
NextShared ==
    \E u \in Units :
        \/ Load(u)
        \/ \E cx \in ContextsOf(u) : SetCall(u, cx)
        \/ \E a \in AdaptersOf(u), cx \in ContextsOf(u) : PollCall(u, a, cx)
        \/ GetCall(u)
        \/ \E a \in AdaptersOf(u) : PwtcCall(u, a)
        \/ FPollCall(u)
        \/ \E gs \in GeneratorStates : ResumeReturn(u, gs)
        \/ \E v \in OpValues : OpReturn(u, v)
        \/ FPollReturn(u)
        \/ Panic(u)
        \/ Unwind(u)

\* One execution unit, the default build: a cell per thread.
Spec == Init /\ [][Next]_vars

\* Every unit runs, the default build.
InitUnits ==
    /\ shared = FALSE
    /\ units = Units
    /\ slot = [u \in Units |-> None]
    /\ stack = [u \in Units |-> <<>>]
    /\ status = [u \in Units |-> "run"]
    /\ gen = [a \in Adapters |-> "start"]
    /\ origin = [u \in Units |-> NoOrigin]
    /\ ev = [u \in Units |-> NoEv]
    /\ seen = [u \in Units |-> NotLoaded]

SpecUnits == InitUnits /\ [][Next]_vars

\* One execution unit, whichever, built with unsafe-single-thread.
InitSingleCore ==
    /\ shared = TRUE
    /\ units \in {{u} : u \in Units}
    /\ slot = [u \in Units |-> None]
    /\ stack = [u \in Units |-> <<>>]
    /\ status = [u \in Units |-> "run"]
    /\ gen = [a \in Adapters |-> "start"]
    /\ origin = [u \in Units |-> NoOrigin]
    /\ ev = [u \in Units |-> NoEv]
    /\ seen = [u \in Units |-> NotLoaded]

SpecSingleCore == InitSingleCore /\ [][Next]_vars

\* Every unit runs, built with unsafe-single-thread: the precondition of
\* that build is broken.
InitShared ==
    /\ shared = TRUE
    /\ units = Units
    /\ slot = [u \in Units |-> None]
    /\ stack = [u \in Units |-> <<>>]
    /\ status = [u \in Units |-> "run"]
    /\ gen = [a \in Adapters |-> "start"]
    /\ origin = [u \in Units |-> NoOrigin]
    /\ ev = [u \in Units |-> NoEv]
    /\ seen = [u \in Units |-> NotLoaded]

SpecShared == InitShared /\ [][NextShared]_vars

\* ---------------------------------------------------------------- claims

\* What unit u's cell holds.
Cell(u) == slot[CellOf(u)]

\* The call that has just returned on unit u is a GenFuture::poll.
PollReturned(u) == ev[u].how = "ret" /\ ev[u].f.k = "resume"

\* C1: when a GenFuture::poll returns Pending or Ready, the cell of its unit
\* holds what it held when poll was called, whatever that was, on every poll
\* of the adapter.
C1_PollRestoresSlot ==
    \A u \in Units :
        PollReturned(u) =>
            /\ ev[u].val.t \in {"Pending", "Ready"}
            /\ ev[u].post = ev[u].pre
            /\ Cell(u) = ev[u].pre

\* A second poll of A, made with C1 while the cell held C0, returned Ready(42).
C1_Witness ==
    /\ PollReturned("u1")
    /\ ev["u1"].f.a = "A"
    /\ ev["u1"].g0 = "suspended"
    /\ ev["u1"].val = Ready(42)
    /\ ev["u1"].cx = "C1"
    /\ ev["u1"].pre = "C0"
    /\ Cell("u1") = "C0"

\* C2: when a poll whose generator drove another adapter through
\* poll_with_tls_context returns, the cell holds what it held before that poll.
C2_NestedPollRestoresSlot ==
    \A u \in Units :
        (PollReturned(u) /\ ev[u].nest >= 1) =>
            (ev[u].post = ev[u].pre /\ Cell(u) = ev[u].pre)

\* A poll that drove a nested adapter returned, and the cell held a context before it.
C2_Witness ==
    /\ PollReturned("u1")
    /\ ev["u1"].nest >= 1
    /\ ev["u1"].pre = "C0"
    /\ ev["u1"].cx = "C1"
    /\ Cell("u1") = "C0"

\* C3: when a panic unwinds through a set_task_context or get_task_context
\* scope, at any depth, the cell holds that scope's pre-call content as the
\* panic leaves the scope; so it does as the panic leaves the outermost poll.
C3_RestoredOnUnwind ==
    \A u \in Units :
        ev[u].how = "panic" =>
            (ev[u].post = ev[u].pre /\ Cell(u) = ev[u].pre)

\* A panic that came through a nested adapter has left a poll that was made
\* while the cell held a context.
C3_Witness ==
    /\ ev["u1"].how = "panic"
    /\ ev["u1"].f.k = "resume"
    /\ ev["u1"].nest >= 1
    /\ ev["u1"].pre = "C0"
    /\ ev["u1"].cx = "C1"

\* The call that unit u has just entered is a get_task_context.
GetEntered(u) == ev[u].how = "enter" /\ ev[u].fn = "get"

\* The frames of unit u below the top one hold a get_task_context.
InsideGet(u) ==
    \E i \in 1..(Len(stack[u]) - 1) : stack[u][i].fn = "get"

\* get_task_context has just been called by the closure of a get_task_context.
CalledByGet(u) ==
    /\ GetEntered(u)
    /\ Len(stack[u]) >= 2
    /\ stack[u][Len(stack[u]) - 1].fn = "get"

\* C4 as stated: a get_task_context entered while the guard of an enclosing
\* get_task_context has not fired panics.
C4_Original ==
    \A u \in Units :
        (GetEntered(u) /\ InsideGet(u)) => (~ev[u].invoked /\ status[u] = "unwind")

\* C4 as amended: a get_task_context called by the closure of a
\* get_task_context, with no context installed in between, panics.
C4_SecondTakePanics ==
    \A u \in Units :
        CalledByGet(u) => (~ev[u].invoked /\ status[u] = "unwind")

\* A get_task_context was called by the closure of one that held a context.
C4_Witness ==
    /\ CalledByGet("u1")
    /\ stack["u1"][Len(stack["u1"]) - 1].arg = "C1"
    /\ status["u1"] = "unwind"

\* C5: a get_task_context called on an empty cell never calls its closure and
\* never returns: it panics.
C5_EmptyTakePanics ==
    \A u \in Units :
        (ev[u].fn = "get" /\ ev[u].pre = None) =>
            /\ ~ev[u].invoked
            /\ ev[u].how \in {"enter", "panic"}
            /\ ev[u].how = "enter" => status[u] = "unwind"

\* get_task_context, called with no poll in progress, has panicked.
C5_Witness ==
    /\ ev["u1"].fn = "get"
    /\ ev["u1"].f.k = "op"
    /\ ev["u1"].pre = None
    /\ ev["u1"].how = "panic"
    /\ ev["u1"].depth = 1
    /\ stack["u1"] = <<>>

\* C6: a poll resumes its generator once and returns Pending exactly when
\* the resume yielded, Ready(v) exactly when it completed with v.
C6_PollResultFollowsResume ==
    \A u \in Units :
        PollReturned(u) =>
            /\ ev[u].res = 1
            /\ ev[u].val = Pending <=> ev[u].out = Yielded
            /\ \A x \in Values : ev[u].val = Ready(x) <=> ev[u].out = Complete(x)
            /\ ev[u].val \in {Pending} \cup {Ready(x) : x \in Values}
            /\ ev[u].g0 \in {"start", "suspended"}
            /\ ev[u].g1 = IF ev[u].out = Yielded THEN "suspended" ELSE "returned"
            /\ gen[ev[u].f.a] = ev[u].g1

\* A poll whose resume completed with 7 has returned.
C6_Witness ==
    /\ PollReturned("u1")
    /\ ev["u1"].out = Complete(7)
    /\ ev["u1"].val = Ready(7)

\* Frame i of unit u is a poll, and frame i + 1 a retrieval made by its generator.
RetrievalInPoll(u, i) ==
    /\ i + 1 <= Len(stack[u])
    /\ stack[u][i].f.k = "resume"
    /\ stack[u][i + 1].fn = "get"

\* C7: a retrieval made by the generator of a poll(C) obtains C, whatever
\* the cell held before that poll.
C7_PollInstallsContext ==
    \A u \in Units : \A i \in 1..Len(stack[u]) :
        RetrievalInPoll(u, i) =>
            (stack[u][i + 1].invoked /\ stack[u][i + 1].arg = stack[u][i].cx)

\* The generator of a poll(C1), made while the cell held C0, has retrieved C1.
C7_Witness ==
    /\ RetrievalInPoll("u1", 2)
    /\ stack["u1"][2].pre = "C0"
    /\ stack["u1"][2].cx = "C1"
    /\ stack["u1"][3].f.k = "op"
    /\ stack["u1"][3].arg = "C1"
    /\ GetEntered("u1")

\* Frame i of unit u is a poll whose generator called poll_with_tls_context.
PwtcInPoll(u, i) ==
    /\ i + 1 <= Len(stack[u])
    /\ stack[u][i].f.k = "resume"
    /\ stack[u][i + 1].f.k = "fpoll"

\* C8: poll_with_tls_context, called by the generator of a poll(C), polls
\* the nested adapter with C, and the nested generator retrieves C.
C8_NestedPollGetsAmbient ==
    \A u \in Units : \A i \in 1..Len(stack[u]) :
        PwtcInPoll(u, i) =>
            /\ stack[u][i + 1].invoked
            /\ stack[u][i + 1].arg = stack[u][i].cx
            /\ i + 2 <= Len(stack[u]) =>
                    /\ stack[u][i + 2].f = ResumeOf(stack[u][i + 1].f.a)
                    /\ stack[u][i + 2].cx = stack[u][i].cx
            /\ (i + 3 <= Len(stack[u]) /\ stack[u][i + 3].fn = "get") =>
                    stack[u][i + 3].arg = stack[u][i].cx

\* The generator of B, polled through poll_with_tls_context by the generator
\* of a poll(A, C1), has retrieved C1.
C8_Witness ==
    /\ Len(stack["u1"]) = 4
    /\ PwtcInPoll("u1", 1)
    /\ stack["u1"][1].f.a = "A"
    /\ stack["u1"][1].cx = "C1"
    /\ stack["u1"][3].f = ResumeOf("B")
    /\ stack["u1"][4].f.k = "op"
    /\ stack["u1"][4].arg = "C1"

\* C9: get_task_context(op) on an occupied cell: the cell is empty when op
\* starts, op gets the context the cell held, the call returns what op
\* returned, and the cell holds the context again once op has returned or failed.
C9_TakeClearsAndRestores ==
    \A u \in Units :
        (ev[u].fn = "get" /\ ev[u].pre # None) =>
            /\ ev[u].invoked
            /\ ev[u].arg = ev[u].pre
            /\ ev[u].how = "enter" => (Cell(u) = None /\ status[u] = "run")
            /\ ev[u].how \in {"ret", "panic"} =>
                    (ev[u].post = ev[u].pre /\ Cell(u) = ev[u].pre)
            /\ ev[u].how = "ret" => ev[u].val = ev[u].out

\* A get_task_context(op) that took C1 has returned op's 42.
C9_Witness ==
    /\ ev["u1"].fn = "get"
    /\ ev["u1"].f.k = "op"
    /\ ev["u1"].how = "ret"
    /\ ev["u1"].arg = "C1"
    /\ ev["u1"].val = OpValue(42)
    /\ Cell("u1") = "C1"

\* C10: the guard of a scope that is left, by a return or by a panic, writes
\* the value it owns into the cell once, and no frame is left in another way.
C10_GuardFiresOnce ==
    \A u \in Units :
        /\ ev[u].how \in {"ret", "panic"} =>
                (ev[u].fired = 1 /\ ev[u].post = ev[u].guard /\ Cell(u) = ev[u].guard)
        /\ ev[u].how \in {"ret", "panic"} <=> ev[u].depth = Len(stack[u]) + 1
        /\ ev[u].how = "enter" => ev[u].depth = Len(stack[u])

\* The guard of a get_task_context, which owned C0, has fired as a panic unwound.
C10_Witness ==
    /\ ev["u1"].fn = "get"
    /\ ev["u1"].how = "panic"
    /\ ev["u1"].guard = "C0"
    /\ ev["u1"].fired = 1
    /\ Cell("u1") = "C0"

\* What the code of the innermost open scope of a stack finds in the cell:
\* the context of a set_task_context, nothing inside a get_task_context or
\* outside every call.
Ambient(st) ==
    IF st = <<>> THEN None
    ELSE IF st[Len(st)].fn = "set" THEN st[Len(st)].cx ELSE None

\* A step leaves a scope of unit u: it is the innermost one, its guard fires
\* in that step, the guards of the enclosing scopes stay as they are, and
\* the cell holds what the enclosing scope's code found before.
LeavesInnermost(u) ==
    Len(stack'[u]) < Len(stack[u]) =>
        /\ Len(stack'[u]) = Len(stack[u]) - 1
        /\ ev'[u].how \in {"ret", "panic"}
        /\ ev'[u].depth = Len(stack[u])
        /\ ev'[u].guard = Top(u).guard
        /\ ev'[u].fired = 1
        /\ \A i \in 1..Len(stack'[u]) : stack'[u][i].guard = stack[u][i].guard
        /\ slot'[CellOf(u)] = Ambient(stack'[u])

\* C11: the guards of nested scopes fire in the reverse order of their
\* creation: every step that leaves a scope leaves the innermost one and
\* restores the cell for the enclosing scope, whose guard has not fired yet,
\* in every execution, with panics or without.
C11_StackDiscipline == [][\A u \in Units : LeavesInnermost(u)]_vars

\* A panic has left the third scope of a stack, the cell holds the context
\* of the second, whose guard still owns the context of the first.
C11_Witness ==
    /\ ev["u1"].how = "panic"
    /\ ev["u1"].depth = 3
    /\ ev["u1"].guard = "C1"
    /\ status["u1"] = "unwind"
    /\ Len(stack["u1"]) = 2
    /\ stack["u1"][2].cx = "C1"
    /\ stack["u1"][2].guard = "C0"
    /\ Cell("u1") = "C1"

\* Unit u takes the step.
StepOf(u) ==
    \/ stack'[u] # stack[u]
    \/ status'[u] # status[u]
    \/ ev'[u] # NoEv

\* A step of unit u leaves the other units and their cells alone, reads its
\* own cell, and leaves in it what u would find if it ran alone.
Isolated(u) ==
    StepOf(u) =>
        /\ \A v \in Units \ {u} :
                slot'[v] = slot[v] /\ stack'[v] = stack[v] /\ status'[v] = status[v]
        /\ slot'[u] = Ambient(stack'[u])
        /\ ev'[u].how = "enter" => ev'[u].pre = Ambient(stack[u])
        /\ (ev'[u].how = "enter" /\ ev'[u].fn = "get" /\ ev'[u].invoked) =>
                ev'[u].arg = Ambient(stack[u])

\* C12: in the default build no step of a unit changes or reads the cell of
\* another unit, under any interleaving: the cell of each unit and the
\* contexts its retrievals obtain are those of the unit running alone.
C12_UnitsIsolated == [][\A u \in Units : Isolated(u)]_vars

\* Both units are inside calls: u1 inside a poll with C0 in its cell, u2
\* inside a retrieval that took C1 and left its cell empty.
C12_Witness ==
    /\ ~shared
    /\ Len(stack["u1"]) = 1
    /\ stack["u1"][1].f.k = "resume"
    /\ slot["u1"] = "C0"
    /\ Len(stack["u2"]) = 2
    /\ stack["u2"][2].fn = "get"
    /\ stack["u2"][2].arg = "C1"
    /\ slot["u2"] = None
    /\ ev["u2"].how = "enter"

\* C17: a context in the cell of a unit is the context of a
\* set_task_context or poll that is still in progress on that unit, the
\* innermost open scope; the cell never holds the context of a call that has
\* returned or unwound.
C17_NoDanglingContext ==
    \A u \in units :
        Cell(u) # None =>
            /\ Len(stack[u]) > 0
            /\ Top(u).fn = "set"
            /\ Top(u).cx = Cell(u)

\* A poll(C1) made inside a set_task_context(C0) has returned, and the cell
\* holds C0, whose set_task_context is in progress.
C17_Witness ==
    /\ PollReturned("u1")
    /\ ev["u1"].cx = "C1"
    /\ Len(stack["u1"]) = 1
    /\ stack["u1"][1].cx = "C0"
    /\ Cell("u1") = "C0"

\* C19: the cell of a unit on which no call is in progress is empty.
C19_IdleSlotEmpty ==
    \A u \in units : stack[u] = <<>> => Cell(u) = None

\* The outermost poll, made with C1, has unwound and no call is in progress.
C19_Witness ==
    /\ stack["u1"] = <<>>
    /\ ev["u1"].how = "panic"
    /\ ev["u1"].f.k = "resume"
    /\ ev["u1"].cx = "C1"
    /\ ev["u1"].srcd > 1
    /\ Cell("u1") = None

\* C13: with the one shared cell and one unit running, the cell holds what
\* the cell of the unit holds in the default build, the other cells are
\* never used, and the properties of the default build hold as they are:
\* restoration after polls, nested polls and panics, the panic of a second
\* take, the results of polls and the contexts retrievals obtain.
C13_SingleCoreSame ==
    /\ shared
    /\ \A u \in units : slot[SharedCell] = Ambient(stack[u])
    /\ \A v \in Units \ {SharedCell} : slot[v] = None
    /\ C1_PollRestoresSlot
    /\ C2_NestedPollRestoresSlot
    /\ C3_RestoredOnUnwind
    /\ C4_SecondTakePanics
    /\ C5_EmptyTakePanics
    /\ C6_PollResultFollowsResume
    /\ C7_PollInstallsContext
    /\ C8_NestedPollGetsAmbient
    /\ C9_TakeClearsAndRestores
    /\ C10_GuardFiresOnce
    /\ C17_NoDanglingContext
    /\ C19_IdleSlotEmpty

\* On the shared cell, a panic that came through a nested adapter has left
\* a poll of unit u2 that was made while the cell held a context.
C13_Witness ==
    /\ shared
    /\ units = {"u2"}
    /\ ev["u2"].how = "panic"
    /\ ev["u2"].f.k = "resume"
    /\ ev["u2"].nest >= 1
    /\ ev["u2"].pre = "C0"
    /\ ev["u2"].cx = "C1"
    /\ slot[SharedCell] = "C0"

\* C14: dropping an adapter that nothing borrows leaves the cell of every
\* unit as it was, with no guard of the adapter outstanding; after an
\* adapter was abandoned the cells hold what the open scopes installed.
C14_DropLeavesSlot ==
    /\ \A u \in Units :
            ev[u].how = "drop" =>
                /\ ev[u].post = ev[u].pre
                /\ Cell(u) = ev[u].pre
                /\ Unborrowed(ev[u].f.a)
                /\ ~Alive(ev[u].f.a)
    /\ (\E a \in Adapters : ~Alive(a)) =>
            \A u \in units : Cell(u) = Ambient(stack[u])

\* A was abandoned after a poll returned Pending; later a poll of B, made
\* with C1 while the cell held C0, returned Ready(42).
C14_Witness ==
    /\ gen["A"] = "abandoned"
    /\ PollReturned("u1")
    /\ ev["u1"].f.a = "B"
    /\ ev["u1"].val = Ready(42)
    /\ ev["u1"].cx = "C1"
    /\ ev["u1"].pre = "C0"
    /\ Cell("u1") = "C0"

\* C15: a panic leaves a poll only when it was raised inside the resume of
\* its generator: by the generator or its resume, or in a call made deeper;
\* never by the install or the restore of a set_task_context.
C15_PollFailsOnlyByResume ==
    \A u \in Units :
        /\ origin[u].src \in {"-", "resume", "op", "expect"}
        /\ (ev[u].how = "panic" /\ ev[u].f.k = "resume") =>
                /\ ev[u].src \in {"resume", "op", "expect"}
                /\ ev[u].srcd >= ev[u].depth
                /\ ev[u].srcd = ev[u].depth => ev[u].src = "resume"
        /\ (ev[u].how = "enter" /\ ev[u].fn = "set") =>
                /\ ev[u].invoked
                /\ status[u] = "unwind" =>
                        (ev[u].f.k = "resume" /\ ev[u].g0 \in {"returned", "panicked"})

\* A panic raised by the expect of a retrieval two calls deeper has left a poll.
C15_Witness ==
    /\ ev["u1"].how = "panic"
    /\ ev["u1"].f.k = "resume"
    /\ ev["u1"].src = "expect"
    /\ ev["u1"].srcd = ev["u1"].depth + 2
    /\ ev["u1"].pre = "C0"

\* A step of unit u on the static that several units use: the load of a
\* replace reads the one cell, whatever unit wrote it; the call then goes by
\* what was loaded, whatever the cell holds by then: an install stores its
\* context, and a retrieval of a loaded context calls its closure with it.
UsesSharedCell(u) ==
    /\ (seen[u] = NotLoaded /\ seen'[u] # NotLoaded) =>
            /\ seen'[u] = slot[SharedCell]
            /\ slot' = slot
            /\ status' = status
    /\ Len(stack'[u]) > Len(stack[u]) =>
            /\ ev'[u].pre = seen[u]
            /\ ev'[u].fn = "set" => (ev'[u].invoked /\ slot'[SharedCell] = ev'[u].cx)
            /\ (ev'[u].fn = "get" /\ ev'[u].pre # None) =>
                    /\ ev'[u].invoked
                    /\ ev'[u].arg = ev'[u].pre
                    /\ status'[u] = "run"
                    /\ slot'[SharedCell] = None

\* C18: with the shared cell and two units, every call of either unit
\* loads and stores the one cell with nothing between the units, and none
\* fails on account of the other unit: a retrieval succeeds on whatever
\* context its load found.
C18_SharedCellUnchecked == [][\A u \in Units : UsesSharedCell(u)]_vars

\* Both units are inside the closure of a get_task_context that obtained
\* C0, the context unit u1 passed to a poll that has returned (u2 passes
\* only C1); no call has panicked.
C18_Witness ==
    /\ shared
    /\ units = Units
    /\ \A u \in Units :
            /\ Len(stack[u]) = 1
            /\ Top(u).fn = "get"
            /\ Top(u).invoked
            /\ Top(u).arg = "C0"
            /\ status[u] = "run"
    /\ gen["A"] = "suspended"
    /\ gen["B"] = "suspended"
    /\ slot[SharedCell] = None

\* C20: a get_task_context that finds the cell empty does not call its
\* closure; its guard, created before the check, owns the empty value and
\* writes it back once, so the cell is empty after the panic as before.
C20_FailedTakeLeavesEmpty ==
    \A u \in Units :
        (ev[u].fn = "get" /\ ev[u].pre = None) =>
            /\ ~ev[u].invoked
            /\ ev[u].guard = None
            /\ Cell(u) = None
            /\ ev[u].how = "enter" =>
                    /\ status[u] = "unwind"
                    /\ Top(u).fn = "get"
                    /\ Top(u).guard = None
                    /\ origin[u] = [src |-> "expect", d |-> Len(stack[u])]
            /\ ev[u].how # "enter" =>
                    /\ ev[u].how = "panic"
                    /\ ev[u].fired = 1
                    /\ ev[u].post = None
                    /\ ev[u].src = "expect"
                    /\ ev[u].srcd = ev[u].depth

\* A get_task_context called by the closure of a get_task_context found the
\* cell empty and has unwound; the panic goes on through the enclosing one.
C20_Witness ==
    /\ ev["u1"].fn = "get"
    /\ ev["u1"].f.k = "op"
    /\ ev["u1"].pre = None
    /\ ev["u1"].how = "panic"
    /\ ev["u1"].depth = 3
    /\ status["u1"] = "unwind"
    /\ Top("u1").fn = "get"
    /\ Top("u1").guard = "C1"

====
